---- MODULE Spec2Model ----
(***************************************************************************)
(* Model of the aligned / large-page memory facility of src/misc.cpp:      *)
(* std_aligned_alloc, std_aligned_free, aligned_large_pages_alloc (with    *)
(* its Windows privilege negotiation) and aligned_large_pages_free.        *)
(* The build variant (the #if branches of the source) is chosen in Init.   *)
(* The log-file tee (Tie, Logger::start) is checked on its own under       *)
(* LoggerSpec.                                                             *)
(* Operating-system calls are inputs: each step draws the call's outcome.  *)
(***************************************************************************)
EXTENDS Integers, Sequences, FiniteSets, TLC

\* ---------------------------------------------------------------- bounds
\* Width of size_t in the model (the source's size_t is 32 or 64 bits wide).
WordBits == 3
\* log2 of the page size assumed on Linux (2 MB in the source, scaled to WordBits).
LinuxPageShift == 2
\* log2 of the page size assumed on the other POSIX builds (4096, scaled).
SmallPageShift == 1
\* GetLargePageMinimum() reports 0 or 2^k for some k in 1..MaxLargePageShift.
MaxLargePageShift == 2
\* Number of allocations that can be live at once (the OS refuses beyond it).
MaxLive == 1

\* ------------------------------------------------------ size_t arithmetic
SizeMod == 2 ^ WordBits
SizeMax == SizeMod - 1
SizeT == 0 .. SizeMax

RECURSIVE BitAnd(_, _)
BitAnd(a, b) ==
    IF a = 0 \/ b = 0 THEN 0
    ELSE (IF a % 2 = 1 /\ b % 2 = 1 THEN 1 ELSE 0) + 2 * BitAnd(a \div 2, b \div 2)

BitNot(a) == SizeMax - a

\* (allocSize + largePageSize - 1) & ~size_t(largePageSize - 1)
RoundUpMask(allocSize, largePageSize) ==
    BitAnd((allocSize + largePageSize - 1) % SizeMod, BitNot(largePageSize - 1))

RoundDownDiv(allocSize, alignment) == ((allocSize \div alignment) * alignment) % SizeMod

\* ((allocSize + alignment - 1) / alignment) * alignment
RoundUpDiv(allocSize, alignment) ==
    ((((allocSize + alignment - 1) % SizeMod) \div alignment) * alignment) % SizeMod

\* ----------------------------------------------------------- build variants
Windows == {"win64", "win32"}
Platforms == {"win64", "win32", "linux", "other"}

PosixAlignment(p) == IF p = "linux" THEN 2 ^ LinuxPageShift ELSE 2 ^ SmallPageShift

LargePageSizes == {0} \cup {2 ^ k : k \in 1 .. MaxLargePageShift}

\* ------------------------------------------------------------------- state
VARIABLES
    platform,       \* build variant
    pc,             \* position: "idle", a step of the Windows allocation, "terminated"
    lastOp,         \* the operation last entered
    heap,           \* pointer -> "free" | "Std" | "Regular" | "LargePage"
    allocSize,      \* aligned_large_pages_alloc's parameter
    largePageSize,  \* local of aligned_large_pages_alloc_windows
    hAdvapi32,      \* local: 0 = NULL
    mem,            \* local: 0 = nullptr
    prevTp,         \* local: "none" (PrivilegeCount 0) or the recorded attributes
    privilege,      \* SeLockMemoryPrivilege in the token: "absent" | "disabled" | "enabled"
    privBefore,     \* privilege when the current allocation call was entered
    advapiLoaded,   \* advapi32.dll is mapped in the process
    moduleRefs,     \* LoadLibrary references taken and not yet released
    tokensOpen,     \* token handles opened and not yet closed
    oscalls,        \* OS calls made by the current allocation call, in order
    ret,            \* what the last allocation call returned
    lastFree,       \* what the last release call was given and how the OS answered
    diag,           \* diagnostic lines written to std::cerr
    exitStatus,     \* -1 while running, else the status passed to exit()
    priorFailed,    \* an earlier aligned_large_pages_alloc ended without large pages
    constructed,    \* the function-local static Logger l has been constructed
    fname,          \* Logger::start's parameter while a call is running
    fileOpen,       \* l.file: "" when closed, else the name it was opened with
    cinRdbuf,       \* std::cin.rdbuf()
    coutRdbuf,      \* std::cout.rdbuf()
    inBuf,          \* l.in.buf
    outBuf,         \* l.out.buf
    last,           \* the static `last` of Tie::log
    logFile,        \* what has been written to the open log file
    lastStart       \* the name given to the last start_logger and whether it opened

logVars == <<constructed, fname, fileOpen, cinRdbuf, coutRdbuf, inBuf, outBuf, last,
             logFile, lastStart>>

vars == <<platform, pc, lastOp, heap, allocSize, largePageSize, hAdvapi32, mem,
          prevTp, privilege, privBefore, advapiLoaded, moduleRefs, tokensOpen,
          oscalls, ret, lastFree, diag, exitStatus, priorFailed, logVars>>

Pointers == 1 .. MaxLive

NoRet == [ptr |-> 0, kind |-> "none", passed |-> 0, requested |-> 0]
NoFree == [ptr |-> 0, kind |-> "none", ok |-> TRUE]

Call(f, r, a) == [f |-> f, r |-> r, a |-> a]

FreeSlots == {p \in Pointers : heap[p] = "free"}
NewPointer == CHOOSE p \in FreeSlots : \A q \in FreeSlots : p <= q

Init ==
    /\ platform \in Platforms
    /\ pc = "idle"
    /\ lastOp = "none"
    /\ heap = [p \in Pointers |-> "free"]
    /\ allocSize = 0
    /\ largePageSize = 0
    /\ hAdvapi32 = 0
    /\ mem = 0
    /\ prevTp = "none"
    /\ privilege \in {"absent", "disabled", "enabled"}
    /\ privBefore = privilege
    /\ advapiLoaded \in BOOLEAN
    /\ moduleRefs = 0
    /\ tokensOpen = 0
    /\ oscalls = <<>>
    /\ ret = NoRet
    /\ lastFree = NoFree
    /\ diag = 0
    /\ exitStatus = -1
    /\ priorFailed = FALSE
    /\ constructed = FALSE
    /\ fname = ""
    /\ fileOpen = ""
    /\ cinRdbuf = "cin"
    /\ coutRdbuf = "cout"
    /\ inBuf = "none"
    /\ outBuf = "none"
    /\ last = "\n"
    /\ logFile = <<>>
    /\ lastStart = [fname |-> "", opened |-> FALSE]

\* ------------------------------------------------------ std_aligned_alloc
\* The outcomes of the platform's aligned allocator for a request of `size`:
\* nullptr, or a fresh pointer.  A request of 0 bytes may yield either.
AllocOutcomes == {0} \cup (IF FreeSlots = {} THEN {} ELSE {NewPointer})

\* VirtualAlloc refuses a request of 0 bytes.
VirtualAllocOutcomes(size) == IF size = 0 THEN {0} ELSE AllocOutcomes

winLocals == <<largePageSize, hAdvapi32, mem, prevTp>>
osState == <<privilege, privBefore, advapiLoaded, moduleRefs, tokensOpen>>
exitState == <<diag, exitStatus>>

std_aligned_alloc_aborting ==
    /\ pc = "idle"
    /\ \E size \in SizeT, p \in AllocOutcomes :
        /\ lastOp' = "std_aligned_alloc"
        /\ heap' = IF p = 0 THEN heap ELSE [heap EXCEPT ![p] = "Std"]
        /\ ret' = [ptr |-> p, kind |-> IF p = 0 THEN "none" ELSE "Std",
                   passed |-> size, requested |-> size]
        /\ oscalls' = <<Call("std_aligned_alloc", p, size)>>
        /\ pc' = IF p = 0 THEN "terminated" ELSE pc
        /\ exitStatus' = IF p = 0 THEN 1 ELSE exitStatus
    /\ lastFree' = NoFree
    /\ UNCHANGED <<platform, allocSize, winLocals, osState, diag, priorFailed>>
    /\ UNCHANGED logVars

std_aligned_alloc ==
    /\ pc = "idle"
    /\ \E size \in SizeT, p \in AllocOutcomes :
        /\ lastOp' = "std_aligned_alloc"
        /\ heap' = IF p = 0 THEN heap ELSE [heap EXCEPT ![p] = "Std"]
        /\ ret' = [ptr |-> p, kind |-> IF p = 0 THEN "none" ELSE "Std",
                   passed |-> size, requested |-> size]
        /\ oscalls' = <<Call("std_aligned_alloc", p, size)>>
    /\ lastFree' = NoFree
    /\ UNCHANGED <<platform, pc, allocSize, winLocals, osState, exitState, priorFailed>>
    /\ UNCHANGED logVars

std_aligned_free ==
    /\ pc = "idle"
    /\ \E p \in {0} \cup {q \in Pointers : heap[q] = "Std"} :
        /\ lastOp' = "std_aligned_free"
        /\ heap' = IF p = 0 THEN heap ELSE [heap EXCEPT ![p] = "free"]
        /\ lastFree' = [ptr |-> p, kind |-> IF p = 0 THEN "none" ELSE "Std", ok |-> TRUE]
    /\ ret' = NoRet
    /\ oscalls' = <<>>
    /\ UNCHANGED <<platform, pc, allocSize, winLocals, osState, exitState, priorFailed>>
    /\ UNCHANGED logVars

\* --------------------------------- aligned_large_pages_alloc, non-Windows
AlignedLargePagesAllocPosix ==
    /\ pc = "idle"
    /\ platform \notin Windows
    /\ \E s \in SizeT :
        LET size == RoundUpDiv(s, PosixAlignment(platform)) IN
        \E p \in AllocOutcomes :
            /\ lastOp' = "aligned_large_pages_alloc"
            /\ heap' = IF p = 0 THEN heap ELSE [heap EXCEPT ![p] = "Regular"]
            /\ oscalls' = <<Call("std_aligned_alloc", p, size)>>
            /\ ret' = [ptr |-> p, kind |-> IF p = 0 THEN "none" ELSE "Regular",
                       passed |-> size, requested |-> s]
            /\ priorFailed' = TRUE
    /\ privBefore' = privilege
    /\ lastFree' = NoFree
    /\ UNCHANGED <<platform, pc, allocSize, winLocals, privilege, advapiLoaded,
                   moduleRefs, tokensOpen, exitState>>
    /\ UNCHANGED logVars

\* ------------------------------------- aligned_large_pages_alloc, Windows
\* Every step of the Windows allocation leaves these alone.
callFrame == <<platform, lastOp, allocSize, privBefore, ret, lastFree, exitState,
               priorFailed>>

\* Locals and parameters are dead once the call has returned.
DeadLocals ==
    /\ allocSize' = 0
    /\ largePageSize' = 0
    /\ hAdvapi32' = 0
    /\ mem' = 0
    /\ prevTp' = "none"

AlignedLargePagesAllocEnterCached ==
    /\ pc = "idle"
    /\ platform \in Windows
    /\ \E s \in SizeT : allocSize' = s
    /\ lastOp' = "aligned_large_pages_alloc"
    /\ pc' = IF platform = "win64" /\ ~priorFailed THEN "GetLargePageMinimum"
             ELSE "Returned"
    /\ largePageSize' = 0
    /\ hAdvapi32' = 0
    /\ mem' = 0
    /\ prevTp' = "none"
    /\ privBefore' = privilege
    /\ oscalls' = <<>>
    /\ ret' = NoRet
    /\ lastFree' = NoFree
    /\ UNCHANGED <<platform, heap, privilege, advapiLoaded, moduleRefs, tokensOpen,
                   exitState, priorFailed>>
    /\ UNCHANGED logVars

\* Entry of aligned_large_pages_alloc: it calls aligned_large_pages_alloc_windows,
\* which returns nullptr at once on a build without _WIN64.
AlignedLargePagesAllocEnter ==
    /\ pc = "idle"
    /\ platform \in Windows
    /\ \E s \in SizeT : allocSize' = s
    /\ lastOp' = "aligned_large_pages_alloc"
    /\ pc' = IF platform = "win64" THEN "GetLargePageMinimum" ELSE "Returned"
    /\ largePageSize' = 0
    /\ hAdvapi32' = 0
    /\ mem' = 0
    /\ prevTp' = "none"
    /\ privBefore' = privilege
    /\ oscalls' = <<>>
    /\ ret' = NoRet
    /\ lastFree' = NoFree
    /\ UNCHANGED <<platform, heap, privilege, advapiLoaded, moduleRefs, tokensOpen,
                   exitState, priorFailed>>
    /\ UNCHANGED logVars

GetLargePageMinimum ==
    /\ pc = "GetLargePageMinimum"
    /\ \E lps \in LargePageSizes :
        /\ largePageSize' = lps
        /\ oscalls' = Append(oscalls, Call("GetLargePageMinimum", lps, 0))
        /\ pc' = IF lps = 0 THEN "Returned" ELSE "GetModuleHandle"
    /\ UNCHANGED <<callFrame, heap, hAdvapi32, mem, prevTp, privilege, advapiLoaded,
                   moduleRefs, tokensOpen>>
    /\ UNCHANGED logVars

\* GetModuleHandle, and LoadLibrary when the module is not mapped yet.
GetModuleHandle ==
    /\ pc = "GetModuleHandle"
    /\ IF advapiLoaded
       THEN /\ hAdvapi32' = 1
            /\ oscalls' = Append(oscalls, Call("GetModuleHandle", 1, 0))
            /\ UNCHANGED <<advapiLoaded, moduleRefs>>
       ELSE \E loaded \in BOOLEAN :
            /\ hAdvapi32' = IF loaded THEN 1 ELSE 0
            /\ advapiLoaded' = loaded
            /\ moduleRefs' = IF loaded THEN moduleRefs + 1 ELSE moduleRefs
            /\ oscalls' = oscalls \o <<Call("GetModuleHandle", 0, 0),
                                       Call("LoadLibrary", IF loaded THEN 1 ELSE 0, 0)>>
    /\ pc' = "fun6"
    /\ UNCHANGED <<callFrame, heap, largePageSize, mem, prevTp, privilege, tokensOpen>>
    /\ UNCHANGED logVars

NextEntryPoint(at) ==
    IF at = "fun6" THEN "fun7" ELSE IF at = "fun7" THEN "fun8" ELSE "OpenProcessToken"

\* GetProcAddress for OpenProcessToken, LookupPrivilegeValueA, AdjustTokenPrivileges.
GetProcAddress ==
    /\ pc \in {"fun6", "fun7", "fun8"}
    /\ \E found \in (IF hAdvapi32 = 0 THEN {FALSE} ELSE BOOLEAN) :
        /\ oscalls' = Append(oscalls, Call("GetProcAddress", IF found THEN 1 ELSE 0, 0))
        /\ pc' = IF found THEN NextEntryPoint(pc) ELSE "Returned"
    /\ UNCHANGED <<callFrame, heap, winLocals, privilege, advapiLoaded, moduleRefs,
                   tokensOpen>>
    /\ UNCHANGED logVars

OpenProcessToken ==
    /\ pc = "OpenProcessToken"
    /\ \E opened \in BOOLEAN :
        /\ tokensOpen' = IF opened THEN tokensOpen + 1 ELSE tokensOpen
        /\ oscalls' = Append(oscalls, Call("OpenProcessToken", IF opened THEN 1 ELSE 0, 0))
        /\ pc' = IF opened THEN "LookupPrivilegeValue" ELSE "Returned"
    /\ UNCHANGED <<callFrame, heap, winLocals, privilege, advapiLoaded, moduleRefs>>
    /\ UNCHANGED logVars

LookupPrivilegeValue ==
    /\ pc = "LookupPrivilegeValue"
    /\ \E found \in BOOLEAN :
        /\ oscalls' = Append(oscalls,
                             Call("LookupPrivilegeValue", IF found THEN 1 ELSE 0, 0))
        /\ pc' = IF found THEN "AdjustTokenPrivileges" ELSE "CloseHandle"
    /\ UNCHANGED <<callFrame, heap, winLocals, privilege, advapiLoaded, moduleRefs,
                   tokensOpen>>
    /\ UNCHANGED logVars

\* What AdjustTokenPrivileges does when asked to enable the privilege:
\* it fails and changes nothing, or it succeeds and GetLastError() then tells
\* whether the privilege was assigned; PreviousState receives the privileges
\* the call modified.
ERROR_SUCCESS == "ERROR_SUCCESS"
ERROR_NOT_ALL_ASSIGNED == "ERROR_NOT_ALL_ASSIGNED"

EnablePrivilege(priv, callOk) ==
    IF ~callOk THEN [ok |-> FALSE, err |-> "failed", priv |-> priv, prev |-> "none"]
    ELSE IF priv = "absent"
         THEN [ok |-> TRUE, err |-> ERROR_NOT_ALL_ASSIGNED, priv |-> priv, prev |-> "none"]
    ELSE IF priv = "disabled"
         THEN [ok |-> TRUE, err |-> ERROR_SUCCESS, priv |-> "enabled", prev |-> "disabled"]
    ELSE [ok |-> TRUE, err |-> ERROR_SUCCESS, priv |-> priv, prev |-> "none"]

AdjustTookEffectUnchecked(ok, err) == ok

\* fun8(...) && GetLastError() == ERROR_SUCCESS
AdjustTookEffect(ok, err) == ok /\ err = ERROR_SUCCESS

AdjustTokenPrivileges ==
    /\ pc = "AdjustTokenPrivileges"
    /\ \E callOk \in BOOLEAN :
        LET res == EnablePrivilege(privilege, callOk) IN
        /\ privilege' = res.priv
        /\ prevTp' = res.prev
        /\ oscalls' = Append(oscalls,
               Call("AdjustTokenPrivileges",
                    IF ~res.ok THEN 0 ELSE IF res.err = ERROR_SUCCESS THEN 1 ELSE 2, 0))
        /\ pc' = IF AdjustTookEffect(res.ok, res.err) THEN "VirtualAllocLarge"
                 ELSE "CloseHandle"
    /\ UNCHANGED <<callFrame, heap, largePageSize, hAdvapi32, mem, advapiLoaded,
                   moduleRefs, tokensOpen>>
    /\ UNCHANGED logVars

\* Round up to full pages and VirtualAlloc with MEM_LARGE_PAGES.
VirtualAllocLarge ==
    /\ pc = "VirtualAllocLarge"
    /\ LET size == RoundUpMask(allocSize, largePageSize) IN
       \E p \in VirtualAllocOutcomes(size) :
        /\ mem' = p
        /\ heap' = IF p = 0 THEN heap ELSE [heap EXCEPT ![p] = "LargePage"]
        /\ oscalls' = Append(oscalls, Call("VirtualAllocLarge", p, size))
    /\ pc' = "RestorePrivileges"
    /\ UNCHANGED <<callFrame, largePageSize, hAdvapi32, prevTp, privilege, advapiLoaded,
                   moduleRefs, tokensOpen>>
    /\ UNCHANGED logVars

RestoredPrivilegeDropped(priv, prev) == priv

\* AdjustTokenPrivileges(hProcessToken, FALSE, &prevTp, 0, nullptr, nullptr)
RestoredPrivilege(priv, prev) == IF prev = "none" THEN priv ELSE prev

RestorePrivileges ==
    /\ pc = "RestorePrivileges"
    /\ privilege' = RestoredPrivilege(privilege, prevTp)
    /\ oscalls' = Append(oscalls, Call("RestorePrivileges", 1, 0))
    /\ pc' = "CloseHandle"
    /\ UNCHANGED <<callFrame, heap, winLocals, advapiLoaded, moduleRefs, tokensOpen>>
    /\ UNCHANGED logVars

CloseHandle ==
    /\ pc = "CloseHandle"
    /\ tokensOpen' = tokensOpen - 1
    /\ oscalls' = Append(oscalls, Call("CloseHandle", 1, 0))
    /\ pc' = "Returned"
    /\ UNCHANGED <<callFrame, heap, winLocals, privilege, advapiLoaded, moduleRefs>>
    /\ UNCHANGED logVars

NeedsFallbackInverted(m) == m # 0

\* if (!mem)
NeedsFallback(m) == m = 0

\* Back in aligned_large_pages_alloc: fall back to a regular VirtualAlloc of
\* allocSize if the large-page attempt gave nothing, then return.
AlignedLargePagesAllocReturn ==
    /\ pc = "Returned"
    /\ IF NeedsFallback(mem)
       THEN \E p \in VirtualAllocOutcomes(allocSize) :
            /\ heap' = IF p = 0 THEN heap ELSE [heap EXCEPT ![p] = "Regular"]
            /\ oscalls' = Append(oscalls, Call("VirtualAllocRegular", p, allocSize))
            /\ ret' = [ptr |-> p, kind |-> IF p = 0 THEN "none" ELSE "Regular",
                       passed |-> allocSize, requested |-> allocSize]
            /\ priorFailed' = TRUE
       ELSE /\ ret' = [ptr |-> mem, kind |-> IF mem = 0 THEN "none" ELSE "LargePage",
                       passed |-> RoundUpMask(allocSize, largePageSize),
                       requested |-> allocSize]
            /\ UNCHANGED <<heap, oscalls, priorFailed>>
    /\ pc' = "idle"
    /\ DeadLocals
    /\ UNCHANGED <<platform, lastOp, osState, lastFree, exitState>>
    /\ UNCHANGED logVars

\* ------------------------------------------------ aligned_large_pages_free
LargePagePointers == {q \in Pointers : heap[q] \in {"Regular", "LargePage"}}

\* Windows: VirtualFree(mem, 0, MEM_RELEASE); a failure is reported and fatal.
ReleaseFailedUnchecked(m, released) == FALSE

ReleaseFailedInverted(m, released) == m # 0 /\ released

\* if (mem && !VirtualFree(mem, 0, MEM_RELEASE))
ReleaseFailed(m, released) == m # 0 /\ ~released

EXIT_FAILURE == 1

AlignedLargePagesFreeWindows ==
    /\ pc = "idle"
    /\ platform \in Windows
    /\ lastOp' = "aligned_large_pages_free"
    /\ \E m \in {0} \cup LargePagePointers, released \in BOOLEAN :
        /\ lastFree' = IF m = 0 THEN NoFree
                       ELSE [ptr |-> m, kind |-> heap[m], ok |-> released]
        /\ heap' = IF m # 0 /\ released THEN [heap EXCEPT ![m] = "free"] ELSE heap
        /\ IF ReleaseFailed(m, released)
           THEN /\ diag' = diag + 1
                /\ exitStatus' = EXIT_FAILURE
                /\ pc' = "terminated"
           ELSE UNCHANGED <<pc, exitState>>
    /\ ret' = NoRet
    /\ oscalls' = <<>>
    /\ UNCHANGED <<platform, allocSize, winLocals, osState, priorFailed>>
    /\ UNCHANGED logVars

\* Elsewhere: std_aligned_free(mem).
AlignedLargePagesFreePosix ==
    /\ pc = "idle"
    /\ platform \notin Windows
    /\ lastOp' = "aligned_large_pages_free"
    /\ \E m \in {0} \cup LargePagePointers :
        /\ lastFree' = [ptr |-> m, kind |-> IF m = 0 THEN "none" ELSE heap[m], ok |-> TRUE]
        /\ heap' = IF m = 0 THEN heap ELSE [heap EXCEPT ![m] = "free"]
    /\ ret' = NoRet
    /\ oscalls' = <<>>
    /\ UNCHANGED <<platform, pc, allocSize, winLocals, osState, exitState, priorFailed>>
    /\ UNCHANGED logVars

Next ==
    \/ std_aligned_alloc
    \/ std_aligned_free
    \/ AlignedLargePagesAllocPosix
    \/ AlignedLargePagesAllocEnter
    \/ GetLargePageMinimum
    \/ GetModuleHandle
    \/ GetProcAddress
    \/ OpenProcessToken
    \/ LookupPrivilegeValue
    \/ AdjustTokenPrivileges
    \/ VirtualAllocLarge
    \/ RestorePrivileges
    \/ CloseHandle
    \/ AlignedLargePagesAllocReturn
    \/ AlignedLargePagesFreeWindows
    \/ AlignedLargePagesFreePosix

Spec == Init /\ [][Next]_vars

\* ------------------------------------------------------------------ Logger
\* Number of items (characters and prefixes) a log file holds in the model.
MaxLog == 4

LogNames == {"a.log", "b.log"}
Chars == {"x", "\n"}

allocVars == <<platform, heap, allocSize, winLocals, osState, oscalls, ret, lastFree,
               priorFailed>>

\* Entry of start_logger / Logger::start: the first call constructs the static
\* Logger, whose Tie members capture the stream buffers of std::cin and
\* std::cout at that moment.
LoggerStartEnter ==
    /\ pc = "idle"
    /\ \E f \in {""} \cup LogNames :
        /\ fname' = f
        /\ lastStart' = [fname |-> f, opened |-> FALSE]
    /\ lastOp' = "start_logger"
    /\ constructed' = TRUE
    /\ inBuf' = IF constructed THEN inBuf ELSE cinRdbuf
    /\ outBuf' = IF constructed THEN outBuf ELSE coutRdbuf
    /\ pc' = "LoggerRestore"
    /\ UNCHANGED <<allocVars, exitState, fileOpen, cinRdbuf, coutRdbuf, last, logFile>>

RdbufKept(isOpen, current, wrapped) == current

\* std::cout.rdbuf(l.out.buf) / std::cin.rdbuf(l.in.buf) under if (l.file.is_open())
RdbufAfterRestore(isOpen, current, wrapped) == IF isOpen THEN wrapped ELSE current

\* if (l.file.is_open()): put the wrapped buffers back and close the file.
LoggerRestore ==
    /\ pc = "LoggerRestore"
    /\ coutRdbuf' = RdbufAfterRestore(fileOpen # "", coutRdbuf, outBuf)
    /\ cinRdbuf' = RdbufAfterRestore(fileOpen # "", cinRdbuf, inBuf)
    /\ fileOpen' = ""
    /\ pc' = IF fname # "" THEN "LoggerOpen" ELSE "idle"
    /\ UNCHANGED <<allocVars, exitState, lastOp, constructed, fname, inBuf, outBuf,
                   last, logFile, lastStart>>

\* if (!fname.empty()): open the file; exit(EXIT_FAILURE) after a message on
\* std::cerr when it is not open, else bind the two Tie objects.  exit() runs
\* ~Logger(), that is start(""), which finds the file closed and changes nothing.
LoggerOpen ==
    /\ pc = "LoggerOpen"
    /\ \E opened \in BOOLEAN :
        IF opened
        THEN /\ fileOpen' = fname
             /\ logFile' = <<>>
             /\ cinRdbuf' = "tie_in"
             /\ coutRdbuf' = "tie_out"
             /\ lastStart' = [lastStart EXCEPT !.opened = TRUE]
             /\ pc' = "idle"
             /\ UNCHANGED exitState
        ELSE /\ diag' = diag + 1
             /\ exitStatus' = EXIT_FAILURE
             /\ pc' = "terminated"
             /\ UNCHANGED <<fileOpen, logFile, cinRdbuf, coutRdbuf, lastStart>>
    /\ UNCHANGED <<allocVars, lastOp, constructed, fname, inBuf, outBuf, last>>

\* Tie::log: the prefix when the last logged character ended a line, then the
\* character; sputc on a closed file buffer yields EOF.
LogAppend(c, prefix) ==
    IF fileOpen = "" THEN logFile
    ELSE logFile \o (IF last = "\n" THEN <<prefix>> ELSE <<>>) \o <<c>>

LogLast(c) == IF fileOpen = "" THEN "EOF" ELSE c

\* Tie::overflow: a character written to std::cout while the Tie is bound.
TieOverflow ==
    /\ pc = "idle"
    /\ coutRdbuf = "tie_out"
    /\ Len(logFile) + 2 <= MaxLog
    /\ \E c \in Chars :
        /\ logFile' = LogAppend(c, "<< ")
        /\ last' = LogLast(c)
    /\ UNCHANGED <<allocVars, exitState, pc, lastOp, constructed, fname, fileOpen,
                   cinRdbuf, coutRdbuf, inBuf, outBuf, lastStart>>

\* Tie::uflow: a character read from std::cin while the Tie is bound.
TieUflow ==
    /\ pc = "idle"
    /\ cinRdbuf = "tie_in"
    /\ Len(logFile) + 2 <= MaxLog
    /\ \E c \in Chars :
        /\ logFile' = LogAppend(c, ">> ")
        /\ last' = LogLast(c)
    /\ UNCHANGED <<allocVars, exitState, pc, lastOp, constructed, fname, fileOpen,
                   cinRdbuf, coutRdbuf, inBuf, outBuf, lastStart>>

\* The logger on its own: the allocation facility is not called.
LoggerInit ==
    /\ Init
    /\ platform = "linux"
    /\ privilege = "absent"
    /\ advapiLoaded = FALSE

LoggerNext ==
    \/ LoggerStartEnter
    \/ LoggerRestore
    \/ LoggerOpen
    \/ TieOverflow
    \/ TieUflow

LoggerSpec == LoggerInit /\ [][LoggerNext]_vars

\* ================================================================ properties
AllocOps == {"std_aligned_alloc", "aligned_large_pages_alloc"}

\* aligned_large_pages_alloc has returned to its caller.
AllocReturned == pc = "idle" /\ lastOp = "aligned_large_pages_alloc"

Made(f) == \E i \in DOMAIN oscalls : oscalls[i].f = f
MadeWith(f, r) == \E i \in DOMAIN oscalls : oscalls[i].f = f /\ oscalls[i].r = r
GotPointer(f) == \E i \in DOMAIN oscalls : oscalls[i].f = f /\ oscalls[i].r # 0

\* C1: on Windows, whenever the large-page attempt yields no memory the regular
\* VirtualAlloc is still made; the call returns null only if that regular
\* allocation failed too, and returns its pointer when it succeeded.
C1_FallbackAlwaysAttempted ==
    (AllocReturned /\ platform \in Windows) =>
        /\ ~GotPointer("VirtualAllocLarge") => Made("VirtualAllocRegular")
        /\ ret.ptr = 0 => MadeWith("VirtualAllocRegular", 0)
        /\ \A i \in DOMAIN oscalls :
             (oscalls[i].f = "VirtualAllocRegular" /\ oscalls[i].r # 0)
                => (ret.ptr = oscalls[i].r /\ heap[ret.ptr] = "Regular")

\* The privilege adjustment did not take effect and the fallback served the call.
C1_Witness ==
    /\ AllocReturned
    /\ platform = "win64"
    /\ MadeWith("AdjustTokenPrivileges", 2)
    /\ ret.kind = "Regular"

\* C2: a non-null pointer returned by aligned_large_pages_alloc(s) comes from an
\* allocator request of at least s bytes, for every s of size_t.
C2_ReturnedBlockCoversRequest ==
    (AllocReturned /\ ret.ptr # 0) => ret.passed >= ret.requested

\* C3: a Windows release of a non-null pointer whose VirtualFree fails writes
\* exactly one diagnostic line and exits with a non-zero status, and no step
\* of the program follows the exit.
C3_FailedReleaseIsFatal ==
    /\ []((lastOp = "aligned_large_pages_free" /\ lastFree.ptr # 0 /\ ~lastFree.ok)
            => (pc = "terminated" /\ diag = 1 /\ exitStatus \notin {-1, 0}))
    /\ [][pc # "terminated"]_vars

C3_Witness ==
    /\ lastOp = "aligned_large_pages_free"
    /\ lastFree.kind = "LargePage"
    /\ ~lastFree.ok
    /\ pc = "terminated"

\* C4 as stated: releasing memory served by the regular fallback path never
\* writes the diagnostic and never terminates, whatever the release call reports.
C4_RegularReleaseNeverFatal ==
    (lastOp = "aligned_large_pages_free" /\ lastFree.kind = "Regular")
        => (pc # "terminated" /\ diag = 0 /\ exitStatus = -1)

\* C4 amended: the diagnostic and the exit happen only in a Windows
\* aligned_large_pages_free of a non-null pointer whose VirtualFree reported
\* failure, for regular and large-page memory alike; a release of regular-path
\* memory that the OS accepts, or any release on a non-Windows build, is
\* never fatal.
C4_FatalOnlyOnFailedVirtualFree ==
    (pc = "terminated" \/ diag # 0 \/ exitStatus # -1)
        => /\ platform \in Windows
           /\ lastOp = "aligned_large_pages_free"
           /\ lastFree.ptr # 0
           /\ lastFree.kind \in {"Regular", "LargePage"}
           /\ ~lastFree.ok

C4_Witness ==
    /\ lastOp = "aligned_large_pages_free"
    /\ lastFree.kind = "Regular"
    /\ ~lastFree.ok
    /\ pc = "terminated"

\* C5: no step of std_aligned_alloc or aligned_large_pages_alloc (negotiation
\* included) terminates the process or writes the diagnostic; a failed
\* allocation returns null to a running process.
C5_AllocationNeverTerminates ==
    [][lastOp' \in AllocOps => (pc' # "terminated" /\ exitStatus' = -1 /\ diag' = 0)]_vars

\* The token could not be opened and the fallback failed: null, still running.
C5_Witness ==
    /\ AllocReturned
    /\ MadeWith("OpenProcessToken", 0)
    /\ ret.ptr = 0
    /\ exitStatus = -1

\* C6: when aligned_large_pages_alloc_windows has returned, every handle it
\* acquired (the process token, the module it loaded) has been released.
C6_HandlesReleasedAtReturn ==
    (lastOp = "aligned_large_pages_alloc" /\ pc \in {"Returned", "idle"})
        => (tokensOpen = 0 /\ moduleRefs = 0)

NegotiationSucceededBefore(i) ==
    \E a, b, c \in 1 .. (i - 1) :
        /\ a < b /\ b < c
        /\ oscalls[a] = Call("OpenProcessToken", 1, 0)
        /\ oscalls[b] = Call("LookupPrivilegeValue", 1, 0)
        /\ oscalls[c] = Call("AdjustTokenPrivileges", 1, 0)

NegotiationStepFailed ==
    \/ MadeWith("OpenProcessToken", 0)
    \/ MadeWith("LookupPrivilegeValue", 0)
    \/ MadeWith("AdjustTokenPrivileges", 0)
    \/ MadeWith("AdjustTokenPrivileges", 2)

\* C7: VirtualAlloc with MEM_LARGE_PAGES is called only after the token was
\* opened, the privilege found and the adjustment succeeded with ERROR_SUCCESS;
\* when one of these steps fails it is never called.
C7_LargeAllocOnlyAfterNegotiation ==
    /\ \A i \in DOMAIN oscalls :
         oscalls[i].f = "VirtualAllocLarge" => NegotiationSucceededBefore(i)
    /\ NegotiationStepFailed => ~Made("VirtualAllocLarge")

C7_Witness == pc = "RestorePrivileges" /\ Made("VirtualAllocLarge")

\* The least multiple of g that is at least s, in unbounded arithmetic.
CeilMultiple(s, g) == ((s + g - 1) \div g) * g

\* The page granularity of the call that has returned (0 when none is known).
Granularity ==
    IF platform \notin Windows THEN PosixAlignment(platform)
    ELSE IF Made("GetLargePageMinimum")
         THEN oscalls[CHOOSE i \in DOMAIN oscalls : oscalls[i].f = "GetLargePageMinimum"].r
    ELSE 0

RegularCalls ==
    {i \in DOMAIN oscalls : oscalls[i].f \in {"VirtualAllocRegular", "std_aligned_alloc"}}

\* C8 as stated: on every build the regular allocation is passed the rounded
\* size ceil(s / granularity) * granularity (as a size_t value), the one
\* computed for the large-page attempt, and not the unrounded s.
C8_FallbackSizedToRoundedSize ==
    (AllocReturned /\ Granularity # 0) =>
        \A i \in RegularCalls :
            oscalls[i].a = CeilMultiple(ret.requested, Granularity) % SizeMod

\* C8 amended: on the non-Windows builds std_aligned_alloc is passed
\* ceil(s / alignment) * alignment when s + alignment - 1 fits size_t and 0
\* when it wraps; on Windows the fallback VirtualAlloc is passed the unrounded s.
C8_FallbackSizePerBuild ==
    AllocReturned =>
        \A i \in RegularCalls :
            oscalls[i].a =
                IF platform \in Windows THEN ret.requested
                ELSE IF ret.requested + Granularity - 1 <= SizeMax
                     THEN CeilMultiple(ret.requested, Granularity)
                     ELSE 0

C8_Witness ==
    /\ AllocReturned
    /\ platform = "win64"
    /\ Granularity # 0
    /\ ret.requested % Granularity # 0
    /\ ret.kind = "Regular"

\* C9: after an earlier call ended without large pages, a call on the
\* privilege-gated build still starts with the capability query and runs the
\* negotiation up to its first failing step or to the large-page VirtualAlloc,
\* and returns the large-page memory when that VirtualAlloc gives some.
C9_FailureNotCached ==
    (priorFailed /\ platform = "win64" /\ AllocReturned) =>
        /\ Len(oscalls) >= 1
        /\ oscalls[1].f = "GetLargePageMinimum"
        /\ \/ Made("VirtualAllocLarge")
           \/ \E i \in DOMAIN oscalls :
                /\ oscalls[i].f \in {"GetLargePageMinimum", "GetProcAddress",
                                     "OpenProcessToken", "LookupPrivilegeValue",
                                     "AdjustTokenPrivileges"}
                /\ oscalls[i].r \in {0, 2} \ (IF oscalls[i].f = "GetLargePageMinimum"
                                              THEN {2} ELSE {})
        /\ \A i \in DOMAIN oscalls :
             (oscalls[i].f = "VirtualAllocLarge" /\ oscalls[i].r # 0)
                => (ret.ptr = oscalls[i].r /\ ret.kind = "LargePage")

C9_Witness ==
    /\ priorFailed
    /\ platform = "win64"
    /\ AllocReturned
    /\ ret.kind = "LargePage"

TeesBound == cinRdbuf = "tie_in" /\ coutRdbuf = "tie_out"
OriginalsBound == cinRdbuf = "cin" /\ coutRdbuf = "cout"

\* C11: between start_logger calls of a running process the streams are bound
\* to the Tie objects exactly when the log file is open, which is exactly when
\* the last call's name was non-empty and opened, and to the original buffers
\* otherwise; the Tie objects wrap the original buffers; a file is opened only
\* while none is open; a name that cannot be opened exits with a failure
\* status with the original buffers bound.
C11_LoggerBinding ==
    /\ []((constructed /\ pc = "idle") =>
            /\ (fileOpen # "") <=> TeesBound
            /\ (fileOpen = "") <=> OriginalsBound
            /\ (fileOpen # "") <=> (lastStart.fname # "" /\ lastStart.opened)
            /\ fileOpen \in {"", lastStart.fname})
    /\ [](constructed => (inBuf = "cin" /\ outBuf = "cout"))
    /\ []((lastOp = "start_logger" /\ pc = "terminated") =>
            /\ exitStatus = EXIT_FAILURE
            /\ OriginalsBound
            /\ fileOpen = ""
            /\ lastStart.fname # "" /\ ~lastStart.opened)
    /\ []((lastOp = "start_logger" /\ pc = "idle" /\ lastStart.fname # "")
            => lastStart.opened)
    /\ [][fileOpen' \notin {"", fileOpen} => fileOpen = ""]_vars

\* A second log file replaced an open one and has been written to.
C11_Witness ==
    /\ pc = "idle"
    /\ fileOpen = "b.log"
    /\ TeesBound
    /\ diag = 0
    /\ Len(logFile) > 0
    /\ last = "x"
====
